---- MODULE Spec2Model ----
(***************************************************************************)
(* A model of the synchronization core of p2p-monopoly-money: the ledger   *)
(* state engine (GameStateReducer), the pre-check (validateTransaction),   *)
(* and the coordinators that replicate the authority's snapshot            *)
(* (GameService, GameProvider in GameContext.tsx, GamePage).               *)
(*                                                                         *)
(* Three specifications share the variables:                               *)
(*   SpecEngine  the engine's transfer function applied to bounded inputs  *)
(*   SpecMerge   the merge rule applied to one authority's snapshots       *)
(*   Spec        the authority and its members exchanging messages         *)
(* Timestamps (createdAt, startedAt, endedAt, Transaction.timestamp) and   *)
(* the display label are left out: no modelled decision reads them.        *)
(***************************************************************************)
EXTENDS Integers, Sequences, FiniteSets, TLC

VARIABLES
    ledger,     \* SpecEngine: the snapshot the engine is applied to
    outcome,    \* SpecEngine: the last engine call: its input, result, pre-state
    local,      \* SpecMerge: the receiver's snapshot
    merged,     \* SpecMerge: the snapshots merged so far
    lastMerge,  \* SpecMerge: the last merge call: which merge, local, incoming
    state,      \* Spec: each peer's snapshot (GameService.gameState / reducer state)
    conn,       \* Spec: the members with an open channel to the authority
    net,        \* Spec: per member, the envelopes in flight from the authority
    req,        \* Spec: per member, the transfer requests in flight to the authority
    nextTx,     \* Spec: the number of transaction ids generated so far
    intents,    \* Spec: the number of user intents the peers may still issue
    lastEvent,  \* Spec: the last step: [peer, kind, changed snapshots, incoming version]
    link,       \* SpecPeer: per dialled pair, the channel: both ends and what is in flight
    svc,        \* SpecPeer: per node, PeerService's connectedPeers and pendingConnections
    calls,      \* SpecPeer: the number of API calls the nodes may still make
    lastCall,   \* SpecPeer: the last step: [op, p, r, res, ev], ev the event p emitted
    pending     \* SpecProvider: the actions dispatched to the reducer, not yet reduced

vars == <<ledger, outcome, local, merged, lastMerge,
          state, conn, net, req, nextTx, intents, lastEvent,
          link, svc, calls, lastCall, pending>>

engineVars == <<ledger, outcome>>
mergeVars  == <<local, merged, lastMerge>>
sysVars    == <<state, conn, net, req, nextTx, intents, lastEvent>>
peerVars   == <<link, svc, calls, lastCall>>

(***************************************************************************)
(* Bounds of the model.                                                    *)
(***************************************************************************)
MaxBal == 2     \* initial balances range over 0..MaxBal
MaxAmt == 2     \* transfer amounts range over 0..MaxAmt (0 is the non-positive case)
MaxTx  == 1     \* at most MaxTx successful operations are applied to one snapshot
MaxSeq == 3     \* SpecMerge: the authority emitted versions 1..MaxSeq
MaxQueue == 2   \* Spec: at most MaxQueue envelopes are in flight to one member
MaxIntents == 2 \* Spec: the users issue at most MaxIntents intents in all
MaxCalls == 4   \* SpecPeer: the nodes make at most MaxCalls calls of the PeerService API
MaxWire == 1    \* SpecPeer: at most MaxWire envelopes in flight per direction of a channel

(***************************************************************************)
(* Identities.                                                             *)
(***************************************************************************)
Admin    == "a"
Members  == {"m1", "m2"}
Peers    == {Admin} \cup Members
StashIds == {"bank", "pot"}
Ghost    == "ghost"                 \* an identity no snapshot knows
EndpointIds == Peers \cup StashIds \cup {Ghost}

GameStatus == {"configuring", "active", "ended"}

\* GameService.gameState before initGame / the first STATE_SYNC
Null  == [null |-> TRUE]
\* GameProvider's initial reducer state, "{} as GameState"
Empty == [empty |-> TRUE]
\* JS truthiness of state.id
HasId(s) == "id" \in DOMAIN s

(***************************************************************************)
(* PeerService: the nodes, the pairs that dial each other and the state    *)
(* before any call.  A link <<a, b>> is the channel a dialled to b: i is   *)
(* a's end, t is b's end, sig holds the ends a close signal is on its way  *)
(* to, toT and toI are the envelopes in flight to each end, promise is the *)
(* promise of connectToPeer while it is unsettled or rejected, and holders *)
(* counts the callers that hold it.                                        *)
(***************************************************************************)
Nodes == {"p1", "p2", "p3"}
Links == {<<"p2", "p1">>, <<"p3", "p1">>, <<"p1", "p2">>}

NoLink == [i |-> "none", t |-> "none", sig |-> {}, toT |-> << >>, toI |-> << >>,
           promise |-> "none", holders |-> 0]
NoService == [connectedPeers |-> [r \in Nodes |-> "none"], pendingConnections |-> {}]
NoEvent == [type |-> "none"]
NoCall == [op |-> "none", ev |-> NoEvent]

PeerIdle ==
    /\ link = [l \in Links |-> NoLink]
    /\ svc = [p \in Nodes |-> NoService]
    /\ calls = 0 /\ lastCall = NoCall

(***************************************************************************)
(* The engine: GameStateReducer.                                           *)
(***************************************************************************)
Ok(s)    == [ok |-> TRUE,  state |-> s, err |-> "none"]
Throw(s, e) == [ok |-> FALSE, state |-> s, err |-> e]

ErrAmount       == "Transaction amount must be positive"
ErrSender       == "Sender not found"
ErrReceiver     == "Receiver not found"
ErrInsufficient == "Sender has insufficient balance"
ErrSame         == "Sender and receiver cannot be the same"
ErrNotActive    == "Cannot perform transactions while game is not active"

hasGameStarted(s) == s.status = "active" \/ s.status = "ended"

isInfiniteStash(s, id) == id \in DOMAIN s.stashes /\ s.stashes[id].isInfinite

\* state.players[id] || state.stashes[id]
Exists(s, id) == id \in DOMAIN s.players \/ id \in DOMAIN s.stashes
Entity(s, id) == IF id \in DOMAIN s.players THEN s.players[id] ELSE s.stashes[id]

\* options with an id are returned as they are (a saved game is resumed)
initGame(peerId, options) ==
    IF HasId(options) THEN options
    ELSE [id |-> "g1", status |-> "configuring",
          players |-> [p \in {peerId} |-> [name |-> "def", balance |-> 0, isAdmin |-> TRUE]],
          stashes |-> [x \in {} |-> [balance |-> 0, isInfinite |-> FALSE]],
          transactions |-> << >>, version |-> 1]

\* The debit and the credit both read the balances of the state passed in.
Debited(s, tx) ==
    IF isInfiniteStash(s, tx.senderId) THEN [players |-> s.players, stashes |-> s.stashes]
    ELSE IF tx.senderId \in DOMAIN s.players
         THEN [players |-> [s.players EXCEPT ![tx.senderId] =
                                [s.players[tx.senderId] EXCEPT !.balance = @ - tx.amount]],
               stashes |-> s.stashes]
         ELSE [players |-> s.players,
               stashes |-> [s.stashes EXCEPT ![tx.senderId] =
                                [s.stashes[tx.senderId] EXCEPT !.balance = @ - tx.amount]]]

\* A credit that does not ask whether the receiver is an infinite stash.
Credited_NoInfiniteCheck(s, d, tx) ==
    IF tx.receiverId \in DOMAIN s.players
    THEN [players |-> [d.players EXCEPT ![tx.receiverId] =
                           [s.players[tx.receiverId] EXCEPT !.balance = @ + tx.amount]],
          stashes |-> d.stashes]
    ELSE [players |-> d.players,
          stashes |-> [d.stashes EXCEPT ![tx.receiverId] =
                           [s.stashes[tx.receiverId] EXCEPT !.balance = @ + tx.amount]]]

Credited(s, d, tx) ==
    IF isInfiniteStash(s, tx.receiverId) THEN d
    ELSE IF tx.receiverId \in DOMAIN s.players
         THEN [players |-> [d.players EXCEPT ![tx.receiverId] =
                                [s.players[tx.receiverId] EXCEPT !.balance = @ + tx.amount]],
               stashes |-> d.stashes]
         ELSE [players |-> d.players,
               stashes |-> [d.stashes EXCEPT ![tx.receiverId] =
                                [s.stashes[tx.receiverId] EXCEPT !.balance = @ + tx.amount]]]

processTransaction_NoFundsCheck(s, tx) ==
    IF tx.amount <= 0 THEN Throw(s, ErrAmount)
    ELSE IF ~Exists(s, tx.senderId) THEN Throw(s, ErrSender)
    ELSE IF ~Exists(s, tx.receiverId) THEN Throw(s, ErrReceiver)
    ELSE LET c == Credited(s, Debited(s, tx), tx)
         IN  Ok([s EXCEPT !.players = c.players, !.stashes = c.stashes,
                          !.transactions = Append(@, [tx EXCEPT !.isDeleted = FALSE]),
                          !.version = @ + 1])

processTransaction(s, tx) ==
    IF tx.amount <= 0 THEN Throw(s, ErrAmount)
    ELSE IF ~Exists(s, tx.senderId) THEN Throw(s, ErrSender)
    ELSE IF ~Exists(s, tx.receiverId) THEN Throw(s, ErrReceiver)
    ELSE IF ~isInfiniteStash(s, tx.senderId) /\ Entity(s, tx.senderId).balance < tx.amount
         THEN Throw(s, ErrInsufficient)
    ELSE LET c == Credited(s, Debited(s, tx), tx)
         IN  Ok([s EXCEPT !.players = c.players, !.stashes = c.stashes,
                          !.transactions = Append(@, [tx EXCEPT !.isDeleted = FALSE]),
                          !.version = @ + 1])

\* The pre-check of GamePage and of the authority's request handler; the
\* result is the kind of the error message, "none" when the transfer is valid.
validateTransaction(s, tx) ==
    IF ~Exists(s, tx.senderId) THEN ErrSender
    ELSE IF ~Exists(s, tx.receiverId) THEN ErrReceiver
    ELSE IF tx.senderId = tx.receiverId THEN ErrSame
    ELSE IF tx.amount <= 0 THEN ErrAmount
    ELSE IF ~isInfiniteStash(s, tx.senderId) /\ Entity(s, tx.senderId).balance < tx.amount
         THEN ErrInsufficient
    ELSE IF s.status # "active" THEN ErrNotActive
    ELSE "none"

ErrNoPlayer == "Player not found"
ErrBalance  == "Cannot update player balance after the game has started. Use transactions instead."
ErrNoStash  == "Stash not found"
ErrStashStarted == "Cannot add new stashes after the game has started"
ErrStashBalance ==
    "Cannot update stash balance or infinite status after the game has started. Use transactions instead."

\* updates is a partial player: a record with some of the fields name, balance
updatePlayer(s, playerId, updates) ==
    IF playerId \notin DOMAIN s.players THEN Throw(s, ErrNoPlayer)
    ELSE IF hasGameStarted(s) /\ "balance" \in DOMAIN updates THEN Throw(s, ErrBalance)
    ELSE Ok([s EXCEPT !.players[playerId] = updates @@ @, !.version = @ + 1])

\* The id generateStashId gives the new stash.
NewStash == "s1"

addStash(s, name, balance, isInfinite) ==
    IF hasGameStarted(s) THEN Throw(s, ErrStashStarted)
    ELSE Ok([s EXCEPT !.stashes = (NewStash :> [name |-> name, balance |-> balance,
                                                isInfinite |-> isInfinite]) @@ @,
                      !.version = @ + 1])

\* An update of a stash that does not look at the status.
updateStash_NoPhaseCheck(s, stashId, updates) ==
    IF stashId \notin DOMAIN s.stashes THEN Throw(s, ErrNoStash)
    ELSE Ok([s EXCEPT !.stashes[stashId] = updates @@ @, !.version = @ + 1])

\* updates is a partial stash: some of the fields name, balance, isInfinite
updateStash(s, stashId, updates) ==
    IF stashId \notin DOMAIN s.stashes THEN Throw(s, ErrNoStash)
    ELSE IF hasGameStarted(s) /\ DOMAIN updates \cap {"balance", "isInfinite"} # {}
         THEN Throw(s, ErrStashBalance)
    ELSE Ok([s EXCEPT !.stashes[stashId] = updates @@ @, !.version = @ + 1])

(***************************************************************************)
(* SpecEngine: the transfer function on bounded inputs.                    *)
(***************************************************************************)
EngineSnapshot(ba, bm, bp, st) ==
    [id |-> "g1", status |-> st,
     players |-> [p \in {Admin, "m1"} |->
                    [name |-> "def", balance |-> IF p = Admin THEN ba ELSE bm,
                     isAdmin |-> (p = Admin)]],
     stashes |-> [x \in StashIds |->
                    IF x = "bank" THEN [name |-> "def", balance |-> 0, isInfinite |-> TRUE]
                                  ELSE [name |-> "def", balance |-> bp, isInfinite |-> FALSE]],
     transactions |-> << >>, version |-> 1]

EngineInputs ==
    { EngineSnapshot(ba, bm, bp, st) :
        ba \in 0..MaxBal, bm \in {0}, bp \in {0, MaxBal}, st \in GameStatus }

NoOutcome == [kind |-> "none"]

Transfers(n) ==
    { [id |-> n, senderId |-> s, receiverId |-> r, amount |-> amt, isDeleted |-> FALSE] :
        s \in EndpointIds \ {"m2"}, r \in EndpointIds \ {"m2"}, amt \in 0..MaxAmt }

EngineInit ==
    /\ ledger \in EngineInputs
    /\ outcome = NoOutcome
    /\ local = Null /\ merged = {} /\ lastMerge = NoOutcome
    /\ PeerIdle /\ pending = << >>
    /\ state = [p \in Peers |-> Null] /\ conn = {}
    /\ net = [m \in Members |-> {}] /\ req = [m \in Members |-> << >>]
    /\ nextTx = 0 /\ intents = 0 /\ lastEvent = NoOutcome

ApplyTransfer ==
    /\ ledger.version <= MaxTx
    /\ \E tx \in Transfers(Len(ledger.transactions) + 1) :
         LET r == processTransaction(ledger, tx)
         IN  /\ ledger' = r.state
             /\ outcome' = [kind |-> "transfer", tx |-> tx, pre |-> ledger,
                            err |-> r.err, check |-> validateTransaction(ledger, tx)]
    /\ UNCHANGED <<mergeVars, sysVars, peerVars, pending>>

\* The partial players and stashes the configuration calls are given.
PlayerUpdates == {[name |-> "new"], [balance |-> MaxBal]}
StashUpdates  == {[name |-> "new"], [balance |-> MaxBal], [isInfinite |-> TRUE]}

Configured(kind, id, updates, r) ==
    [kind |-> kind, id |-> id, updates |-> updates, pre |-> ledger, err |-> r.err]

\* GameService.updatePlayer -> GameStateReducer.updatePlayer
ApplyUpdatePlayer ==
    /\ ledger.version <= MaxTx
    /\ \E id \in {"m1", Ghost}, u \in PlayerUpdates :
         LET r == updatePlayer(ledger, id, u)
         IN  ledger' = r.state /\ outcome' = Configured("updatePlayer", id, u, r)
    /\ UNCHANGED <<mergeVars, sysVars, peerVars, pending>>

\* ADD_STASH -> GameStateReducer.addStash
ApplyAddStash ==
    /\ ledger.version <= MaxTx
    /\ \E b \in {0, MaxBal}, inf \in BOOLEAN :
         LET u == [name |-> "new", balance |-> b, isInfinite |-> inf]
             r == addStash(ledger, u.name, b, inf)
         IN  ledger' = r.state /\ outcome' = Configured("addStash", NewStash, u, r)
    /\ UNCHANGED <<mergeVars, sysVars, peerVars, pending>>

\* UPDATE_STASH -> GameStateReducer.updateStash
ApplyUpdateStash ==
    /\ ledger.version <= MaxTx
    /\ \E id \in {"pot", Ghost}, u \in StashUpdates :
         LET r == updateStash(ledger, id, u)
         IN  ledger' = r.state /\ outcome' = Configured("updateStash", id, u, r)
    /\ UNCHANGED <<mergeVars, sysVars, peerVars, pending>>

EngineNext == ApplyTransfer \/ ApplyUpdatePlayer \/ ApplyAddStash \/ ApplyUpdateStash

SpecEngine == EngineInit /\ [][EngineNext]_vars

(***************************************************************************)
(* Balances of the bounded entities (players and finite stashes).          *)
(***************************************************************************)
Bounded(s, id) == Exists(s, id) /\ ~isInfiniteStash(s, id)
Balance(s, id) == Entity(s, id).balance
BoundedIds(s)  == { id \in DOMAIN s.players \cup DOMAIN s.stashes : Bounded(s, id) }

RECURSIVE SumBalances(_, _)
SumBalances(s, ids) ==
    IF ids = {} THEN 0
    ELSE LET id == CHOOSE x \in ids : TRUE
         IN  Balance(s, id) + SumBalances(s, ids \ {id})

BoundedTotal(s) == SumBalances(s, BoundedIds(s))

\* The last engine call was a transfer out of a bounded source.
FromBounded == outcome.kind = "transfer" /\ Bounded(outcome.pre, outcome.tx.senderId)

(* C1: every transfer that succeeds with a bounded source holding at least  *)
(* the amount debits the source by exactly the amount, credits a bounded    *)
(* destination by exactly the amount, and leaves the bounded total as it    *)
(* was.                                                                     *)
C1_TransferConserves ==
    (/\ FromBounded
     /\ outcome.err = "none"
     /\ Balance(outcome.pre, outcome.tx.senderId) >= outcome.tx.amount)
    => /\ Balance(ledger, outcome.tx.senderId)
            = Balance(outcome.pre, outcome.tx.senderId) - outcome.tx.amount
       /\ Bounded(outcome.pre, outcome.tx.receiverId)
            => /\ Balance(ledger, outcome.tx.receiverId)
                    = Balance(outcome.pre, outcome.tx.receiverId) + outcome.tx.amount
               /\ BoundedTotal(ledger) = BoundedTotal(outcome.pre)

\* The last engine call asked a bounded source for more than it holds.
Overdraw ==
    /\ FromBounded
    /\ outcome.tx.amount > 0
    /\ Balance(outcome.pre, outcome.tx.senderId) < outcome.tx.amount

(* C2 as stated: a positive transfer out of a bounded source holding less   *)
(* than the amount always fails with the insufficient-balance error, and    *)
(* the snapshot (balances, transfer list, version) is unchanged.            *)
C2_OverdrawIsInsufficientFunds ==
    Overdraw => outcome.err = ErrInsufficient /\ ledger = outcome.pre

(* C2 amended: such a transfer always fails and leaves the snapshot          *)
(* unchanged; the error is the insufficient-balance one whenever the        *)
(* destination exists (the receiver-not-found error otherwise), and the     *)
(* pre-check reports it too whenever the destination also differs from the  *)
(* source.                                                                  *)
C2_OverdrawFails ==
    Overdraw =>
        /\ ledger = outcome.pre
        /\ outcome.err # "none"
        /\ Exists(outcome.pre, outcome.tx.receiverId) => outcome.err = ErrInsufficient
        /\ ~Exists(outcome.pre, outcome.tx.receiverId) => outcome.err = ErrReceiver
        /\ (/\ Exists(outcome.pre, outcome.tx.receiverId)
            /\ outcome.tx.receiverId # outcome.tx.senderId)
           => outcome.check = ErrInsufficient

C2_Witness ==
    /\ Overdraw
    /\ Exists(outcome.pre, outcome.tx.receiverId)
    /\ Balance(outcome.pre, outcome.tx.senderId) > 0
    /\ outcome.tx.receiverId # outcome.tx.senderId
    /\ outcome.err = ErrInsufficient
    /\ outcome.check = ErrInsufficient

(***************************************************************************)
(* The merge rule.                                                         *)
(***************************************************************************)
\* A mis-merge that restamps the adopted snapshot with the next local version.
syncState_Restamp(currentState, incomingState) ==
    IF currentState = Null THEN incomingState
    ELSE IF HasId(currentState) /\ incomingState.id = currentState.id
            /\ incomingState.version > currentState.version
         THEN [incomingState EXCEPT !.version = currentState.version + 1]
    ELSE currentState

\* A merge that accepts any snapshot of the same session.
syncState_NoVersionCheck(currentState, incomingState) ==
    IF currentState = Null THEN incomingState
    ELSE IF HasId(currentState) /\ incomingState.id = currentState.id
         THEN incomingState
    ELSE currentState

\* "!currentState" is true of null only: the empty object {} is truthy, and
\* its id (undefined) equals no incoming id.
syncState(currentState, incomingState) ==
    IF currentState = Null THEN incomingState
    ELSE IF HasId(currentState) /\ incomingState.id = currentState.id
            /\ incomingState.version > currentState.version
         THEN incomingState
    ELSE currentState

\* The merge GameService.handleDataMessage does in place: no session check.
\* A state without a version ({}): "n > undefined" is false.
handleDataMessage(gameState, receivedState) ==
    IF gameState = Null THEN receivedState
    ELSE IF HasId(gameState) /\ receivedState.version > gameState.version
         THEN receivedState
    ELSE gameState

(***************************************************************************)
(* SpecMerge: a receiver merging snapshots in any order, with repeats.     *)
(***************************************************************************)
\* The snapshot the session's authority emitted with version v.
Emitted(session, v) ==
    [id |-> session, status |-> "active",
     players |-> [p \in {Admin, "m1"} |->
                    [name |-> "def", balance |-> IF p = Admin THEN v ELSE 0,
                     isAdmin |-> (p = Admin)]],
     stashes |-> [x \in {} |-> [balance |-> 0, isInfinite |-> FALSE]],
     transactions |-> << >>, version |-> v]

AuthoritySnapshots == { Emitted("g1", v) : v \in 1..MaxSeq }
ForeignSnapshots   == { Emitted("g2", v) : v \in 2..MaxSeq }
Incoming           == AuthoritySnapshots \cup ForeignSnapshots

Highest == Emitted("g1", MaxSeq)

\* What sessionStorage may hold when the provider starts: a snapshot of the
\* authority's session saved earlier, or one of another session.
Stored == {Emitted("g1", 1), Emitted("g2", MaxSeq)}

MergeInit ==
    /\ local \in {Null, Empty} \cup Stored
    /\ merged = {} /\ lastMerge = NoOutcome
    /\ ledger = Null /\ outcome = NoOutcome
    /\ PeerIdle /\ pending = << >>
    /\ state = [p \in Peers |-> Null] /\ conn = {}
    /\ net = [m \in Members |-> {}] /\ req = [m \in Members |-> << >>]
    /\ nextTx = 0 /\ intents = 0 /\ lastEvent = NoOutcome

\* GameProvider.handleMessage STATE_SYNC -> SYNC_STATE; GameService.handlePeerMessage
SyncState ==
    /\ \E i \in Incoming :
         /\ local' = syncState(local, i)
         /\ merged' = merged \cup {i}
         /\ lastMerge' = [kind |-> "syncState", cur |-> local, inc |-> i]
    /\ UNCHANGED <<engineVars, sysVars, peerVars, pending>>

\* GameService.handleDataMessage
HandleDataMessage ==
    /\ \E i \in Incoming :
         /\ local' = handleDataMessage(local, i)
         /\ merged' = merged \cup {i}
         /\ lastMerge' = [kind |-> "handleDataMessage", cur |-> local, inc |-> i]
    /\ UNCHANGED <<engineVars, sysVars, peerVars, pending>>

MergeNext == SyncState \/ HandleDataMessage

SpecMerge == MergeInit /\ [][MergeNext]_vars

\* The receiver holds no session: null, or the provider's initial {}.
NoSession(s) == ~HasId(s)

\* The merge rule of the specification.
MergeRule(l, i) ==
    IF NoSession(l) \/ (i.id = l.id /\ i.version > l.version) THEN i ELSE l

(* C3: merge returns the incoming snapshot if the receiver has no session   *)
(* yet, or if the session ids are equal and the incoming version is higher; *)
(* in every other case it returns the local snapshot unchanged.             *)
C3_MergeRule ==
    lastMerge.kind \in {"syncState", "handleDataMessage"}
        => local = MergeRule(lastMerge.cur, lastMerge.inc)

(* C4: once every snapshot of one authority has been merged, in whatever    *)
(* order and however often, the receiver holds the highest-version one.     *)
C4_ConvergesToHighest ==
    merged = AuthoritySnapshots => local = Highest

(* C5: merge is idempotent: merging the same incoming snapshot a second     *)
(* time changes nothing, for the snapshot just merged and for any other.    *)
C5_MergeIdempotent ==
    /\ lastMerge.kind = "syncState" => syncState(local, lastMerge.inc) = local
    /\ \A i \in Incoming :
         syncState(syncState(local, i), i) = syncState(local, i)

\* A snapshot was adopted over an older one, and merged again.
C5_Witness ==
    /\ lastMerge.kind = "syncState"
    /\ HasId(lastMerge.cur)
    /\ local = lastMerge.inc
    /\ lastMerge.cur = lastMerge.inc
    /\ local.version = MaxSeq

(***************************************************************************)
(* The rest of the engine, as the coordinators use it.                     *)
(***************************************************************************)
ErrStarted  == "Cannot add new players after the game has started."

\* An admission that hands the admin flag to the new player.
addPlayer_AsAdmin(s, playerId) ==
    IF playerId \in DOMAIN s.players THEN Ok(s)
    ELSE IF hasGameStarted(s) THEN Throw(s, ErrStarted)
    ELSE Ok([s EXCEPT !.players = (playerId :> [name |-> "def", balance |-> 0,
                                                 isAdmin |-> TRUE]) @@ @,
                      !.version = @ + 1])

\* An admission that commits a new version even for a known player.
addPlayer_Touch(s, playerId) ==
    IF playerId \in DOMAIN s.players THEN Ok([s EXCEPT !.version = @ + 1])
    ELSE IF hasGameStarted(s) THEN Throw(s, ErrStarted)
    ELSE Ok([s EXCEPT !.players = (playerId :> [name |-> "def", balance |-> 0,
                                                 isAdmin |-> FALSE]) @@ @,
                      !.version = @ + 1])

\* An admission that does not look at the status.
addPlayer_NoPhaseCheck(s, playerId) ==
    IF playerId \in DOMAIN s.players THEN Ok(s)
    ELSE Ok([s EXCEPT !.players = (playerId :> [name |-> "def", balance |-> 0,
                                                 isAdmin |-> FALSE]) @@ @,
                      !.version = @ + 1])

\* An admission that gives the new player a starting balance.
addPlayer_Funded(s, playerId) ==
    IF playerId \in DOMAIN s.players THEN Ok(s)
    ELSE IF hasGameStarted(s) THEN Throw(s, ErrStarted)
    ELSE Ok([s EXCEPT !.players = (playerId :> [name |-> "def", balance |-> 1,
                                                 isAdmin |-> FALSE]) @@ @,
                      !.version = @ + 1])

addPlayer(s, playerId) ==
    IF playerId \in DOMAIN s.players THEN Ok(s)
    ELSE IF hasGameStarted(s) THEN Throw(s, ErrStarted)
    ELSE Ok([s EXCEPT !.players = (playerId :> [name |-> "def", balance |-> 0,
                                                 isAdmin |-> FALSE]) @@ @,
                      !.version = @ + 1])

startGame(s) ==
    IF DOMAIN s.players = {} THEN Throw(s, "Cannot start a game with no players")
    ELSE Ok([s EXCEPT !.status = "active", !.version = @ + 1])

\* An end that forgets to increment the version.
endGame_SameVersion(s) ==
    IF HasId(s) THEN [s EXCEPT !.status = "ended"]
    ELSE [empty |-> TRUE, status |-> "ended"]

setConfiguringState(s) ==
    IF s.status = "configuring" THEN Ok(s)
    ELSE Ok([s EXCEPT !.status = "configuring", !.version = @ + 1])

\* {...state, status: 'ended', version: state.version + 1}: on the provider's
\* initial {} the result has a status, no id and no usable version (NaN).
endGame(s) ==
    IF HasId(s) THEN [s EXCEPT !.status = "ended", !.version = @ + 1]
    ELSE [empty |-> TRUE, status |-> "ended"]

(***************************************************************************)
(* Spec: the authority "a" and two members.  Channels are reliable and     *)
(* ordered (PeerService opens them with reliable: true); closing a channel *)
(* loses what is in flight on it.                                          *)
(***************************************************************************)
StateSync(s) == [type |-> "state", gameState |-> s]
GameEnd      == [type |-> "game-end"]
ErrorMsg(e)  == [type |-> "error", code |-> "INVALID_TRANSACTION", message |-> e]

\* A broadcast that leaves out one of the connected peers.
broadcast_SkipOne(n, peers, msg) ==
    [m \in Members |-> IF m \in peers /\ m # (CHOOSE x \in peers : TRUE)
                       THEN Append(n[m], msg) ELSE n[m]]

\* PeerService.broadcast: one send per open connection
broadcast(n, peers, msg) ==
    [m \in Members |-> IF m \in peers THEN Append(n[m], msg) ELSE n[m]]

ErrNoConnection == "No connection to peer"

\* A send that keeps the message for later when there is no connection.
sendToPeer_Outbox(q, open, msg) == [ok |-> open, queue |-> Append(q, msg)]

\* PeerService.sendToPeer: throws when connectedPeers has no entry for the peer
sendToPeer(q, open, msg) ==
    IF open THEN [ok |-> TRUE, queue |-> Append(q, msg)]
    ELSE [ok |-> FALSE, queue |-> q, err |-> ErrNoConnection]

\* A peer that takes every holder of a snapshot with an admin for the admin.
isAdmin_SomeAdmin(s, peerId) == HasId(s) /\ \E id \in DOMAIN s.players : s.players[id].isAdmin

\* state.id && !!state.players[peerId]?.isAdmin: the peer acts as authority
isAdmin(s, peerId) ==
    HasId(s) /\ peerId \in DOMAIN s.players /\ s.players[peerId].isAdmin

\* Object.keys(state.players).find(id => state.players[id].isAdmin)
adminPeerIds(s) == { id \in DOMAIN s.players : s.players[id].isAdmin }


\* The member whose user acts; the other member only receives.
Acting == {"m1"}

\* The transfers the peers ask for: one unit between two players.
Requests(n) ==
    { [id |-> n, senderId |-> s, receiverId |-> r, amount |-> 1, isDeleted |-> FALSE] :
        s \in {Admin} \cup Acting, r \in {Admin} \cup Acting }

\* The options initGame is called with: none, or a saved running game.
NoOptions == [displayName |-> "New Game"]
SavedGame ==
    [id |-> "g1", status |-> "active",
     players |-> [p \in Peers |->
                    [name |-> "def", balance |-> IF p = "m1" THEN MaxBal ELSE 0,
                     isAdmin |-> (p = Admin)]],
     stashes |-> [x \in {} |-> [balance |-> 0, isInfinite |-> FALSE]],
     transactions |-> << >>, version |-> 1]

Changed(old, new) == { p \in Peers : old[p] # new[p] }
Event(p, k, old, new, v) == [peer |-> p, kind |-> k, changed |-> Changed(old, new), v |-> v]

\* The event a member's send leaves behind.
Sent(m, r, kind) == Event(m, IF r.ok THEN kind ELSE "notConnected", state, state, 0)

Init ==
    /\ \E o \in {NoOptions, SavedGame}, s1 \in {Null, Empty}, s2 \in {Null} :
         state = [p \in Peers |-> IF p = Admin THEN initGame(Admin, o)
                                  ELSE IF p = "m1" THEN s1 ELSE s2]
    /\ conn = {}
    /\ net = [m \in Members |-> << >>] /\ req = [m \in Members |-> << >>]
    /\ nextTx = 0 /\ intents = MaxIntents /\ lastEvent = NoOutcome
    /\ ledger = Null /\ outcome = NoOutcome
    /\ local = Null /\ merged = {} /\ lastMerge = NoOutcome
    /\ PeerIdle /\ pending = << >>

\* Every channel to peers has room for k more envelopes.
Room(peers, k) == \A m \in peers : Len(net[m]) + k <= MaxQueue

\* The authority applies r (an engine result) and broadcasts on success.
AdminApply(r, kind, peers, n) ==
    /\ r.ok
    /\ state' = [state EXCEPT ![Admin] = r.state]
    /\ net' = broadcast(n, peers, StateSync(r.state))
    /\ lastEvent' = Event(Admin, kind, state, state', 0)

\* PeerService 'open' + GameService.handlePeerConnect
PeerConnect(m) ==
    /\ m \notin conn
    /\ conn' = conn \cup {m}
    /\ Room(conn, 1)
    /\ LET r == addPlayer(state[Admin], m)
       IN  IF r.ok
           THEN /\ state' = [state EXCEPT ![Admin] = r.state]
                /\ net' = broadcast(net, conn', StateSync(r.state))
           ELSE UNCHANGED <<state, net>>
    /\ lastEvent' = Event(Admin, "connect", state, state', 0)
    /\ UNCHANGED <<intents, req, nextTx, engineVars, mergeVars, peerVars, pending>>

\* PeerService.disconnectFromPeer / the channel's close event
PeerDisconnect(m) ==
    /\ m \in conn
    /\ conn' = conn \ {m}
    /\ net' = [net EXCEPT ![m] = << >>]
    /\ req' = [req EXCEPT ![m] = << >>]
    /\ lastEvent' = Event(m, "disconnect", state, state, 0)
    /\ UNCHANGED <<intents, state, nextTx, engineVars, mergeVars, peerVars, pending>>

\* GameService.updatePlayer, called on the authority
AdminUpdatePlayer ==
    /\ intents > 0 /\ intents' = intents - 1
    /\ Room(conn, 1)
    /\ \E p \in Acting, u \in PlayerUpdates :
         AdminApply(updatePlayer(state[Admin], p, u), "updatePlayer", conn, net)
    /\ UNCHANGED <<conn, req, nextTx, engineVars, mergeVars, peerVars, pending>>

\* GameService.startGame
AdminStartGame ==
    /\ intents > 0 /\ intents' = intents - 1
    /\ Room(conn, 1)
    /\ AdminApply(startGame(state[Admin]), "startGame", conn, net)
    /\ UNCHANGED <<conn, req, nextTx, engineVars, mergeVars, peerVars, pending>>

\* GameService.setConfiguringState
AdminSetConfiguringState ==
    /\ intents > 0 /\ intents' = intents - 1
    /\ Room(conn, 1)
    /\ AdminApply(setConfiguringState(state[Admin]), "setConfiguringState", conn, net)
    /\ UNCHANGED <<conn, req, nextTx, engineVars, mergeVars, peerVars, pending>>

\* GamePage.handleEndGame: END_GAME is dispatched and GAME_END broadcast at
\* once; the provider's effect broadcasts the new snapshot after the render.
AdminEndGame ==
    /\ intents > 0 /\ intents' = intents - 1
    /\ Room(conn, 2)
    /\ AdminApply(Ok(endGame(state[Admin])), "endGame", conn, broadcast(net, conn, GameEnd))
    /\ UNCHANGED <<conn, req, nextTx, engineVars, mergeVars, peerVars, pending>>

\* GamePage.handleCreateTransaction on the authority: pre-check, then ADD_TRANSACTION
AdminCreateTransaction ==
    /\ intents > 0 /\ intents' = intents - 1
    /\ Room(conn, 1)
    /\ \E tx \in Requests(nextTx + 1) :
         /\ validateTransaction(state[Admin], tx) = "none"
         /\ AdminApply(processTransaction(state[Admin], tx), "createTransaction", conn, net)
    /\ nextTx' = nextTx + 1
    /\ UNCHANGED <<conn, req, engineVars, mergeVars, peerVars, pending>>

\* GameService.processTransaction on the authority: the engine alone decides
AdminProcessTransaction ==
    /\ intents > 0 /\ intents' = intents - 1
    /\ Room(conn, 1)
    /\ \E tx \in Requests(nextTx + 1) :
         AdminApply(processTransaction(state[Admin], tx), "processTransaction", conn, net)
    /\ nextTx' = nextTx + 1
    /\ UNCHANGED <<conn, req, engineVars, mergeVars, peerVars, pending>>

\* GamePage.handleCreateTransaction on a member: a fresh id, the pre-check on
\* the member's own snapshot, then sendToPeer to the flagged authority.
\* sendToPeer throws without an open connection: nothing is sent.
MemberCreateTransaction(m) ==
    /\ intents > 0 /\ intents' = intents - 1
    /\ HasId(state[m])
    /\ \E tx \in Requests(nextTx + 1) :
         /\ validateTransaction(state[m], tx) = "none"
         /\ Admin \in adminPeerIds(state[m])
         /\ LET r == sendToPeer(req[m], m \in conn, tx)
            IN  /\ req' = [req EXCEPT ![m] = r.queue]
                /\ lastEvent' = Sent(m, r, "createTransaction")
    /\ nextTx' = nextTx + 1
    /\ UNCHANGED <<state, conn, net, engineVars, mergeVars, peerVars, pending>>

\* GameService.processTransaction on a member: the caller's transaction, with
\* the id the caller gave it (a new one or one already used), is forwarded.
MemberProcessTransaction(m) ==
    /\ intents > 0 /\ intents' = intents - 1
    /\ HasId(state[m])
    /\ Admin \in adminPeerIds(state[m])
    /\ \E n \in 1..nextTx : \E tx \in Requests(n) :
         /\ tx.senderId = m
         /\ LET r == sendToPeer(req[m], m \in conn, tx)
            IN  /\ req' = [req EXCEPT ![m] = r.queue]
                /\ lastEvent' = Sent(m, r, "processTransaction")
    /\ UNCHANGED <<state, conn, net, nextTx, engineVars, mergeVars, peerVars, pending>>

\* GameService.updatePlayer on a member, for its own player: the snapshot is
\* updated in place and nothing is sent.
MemberUpdatePlayer(m) ==
    /\ intents > 0 /\ intents' = intents - 1
    /\ HasId(state[m])
    /\ \E u \in PlayerUpdates :
         LET r == updatePlayer(state[m], m, u)
         IN  /\ r.ok
             /\ state' = [state EXCEPT ![m] = r.state]
    /\ lastEvent' = Event(m, "updatePlayer", state, state', 0)
    /\ UNCHANGED <<conn, net, req, nextTx, engineVars, mergeVars, peerVars, pending>>

\* GameProvider.handleMessage TRANSACTION_REQUEST on the authority
RecvTransactionRequest(m) ==
    /\ req[m] # << >> /\ Room(conn, 1)
    /\ isAdmin(state[Admin], Admin)
    /\ req' = [req EXCEPT ![m] = Tail(@)]
    /\ LET tx == Head(req[m])
           check == validateTransaction(state[Admin], tx)
       IN  IF check = "none"
           THEN AdminApply(processTransaction(state[Admin], tx), "request", conn, net)
           ELSE /\ net' = [net EXCEPT ![m] = Append(@, ErrorMsg(check))]
                /\ lastEvent' = Event(Admin, "request", state, state, 0)
                /\ UNCHANGED state
    /\ UNCHANGED <<intents, conn, nextTx, engineVars, mergeVars, peerVars, pending>>

\* GameProvider.handleMessage STATE_SYNC -> SYNC_STATE; GameService.handlePeerMessage
DeliverStateSync(m) ==
    /\ net[m] # << >> /\ Head(net[m]).type = "state"
    /\ net' = [net EXCEPT ![m] = Tail(@)]
    /\ state' = [state EXCEPT ![m] = syncState(@, Head(net[m]).gameState)]
    /\ lastEvent' = Event(m, "state", state, state', Head(net[m]).gameState.version)
    /\ UNCHANGED <<intents, conn, req, nextTx, engineVars, mergeVars, peerVars, pending>>

\* GameProvider.handleMessage GAME_END -> END_GAME, whoever receives it;
\* GameService.handlePeerMessage (state null until the first sync) ignores it.
DeliverGameEnd(m) ==
    /\ net[m] # << >> /\ Head(net[m]).type = "game-end"
    /\ net' = [net EXCEPT ![m] = Tail(@)]
    /\ state' = [state EXCEPT ![m] = IF @ = Null THEN @ ELSE endGame(@)]
    /\ lastEvent' = Event(m, "game-end", state, state', 0)
    /\ UNCHANGED <<intents, conn, req, nextTx, engineVars, mergeVars, peerVars, pending>>

\* GamePage's listener shows the error; no snapshot changes
DeliverError(m) ==
    /\ net[m] # << >> /\ Head(net[m]).type = "error"
    /\ net' = [net EXCEPT ![m] = Tail(@)]
    /\ lastEvent' = Event(m, "error", state, state, 0)
    /\ UNCHANGED <<intents, state, conn, req, nextTx, engineVars, mergeVars, peerVars, pending>>

Next ==
    \/ \E m \in Members : PeerConnect(m)
    \/ \E m \in Members : PeerDisconnect(m)
    \/ AdminUpdatePlayer
    \/ AdminStartGame
    \/ AdminEndGame
    \/ AdminSetConfiguringState
    \/ AdminCreateTransaction
    \/ AdminProcessTransaction
    \/ \E m \in Acting : MemberCreateTransaction(m)
    \/ \E m \in Acting : MemberProcessTransaction(m)
    \/ \E m \in Acting : MemberUpdatePlayer(m)
    \/ \E m \in Members : RecvTransactionRequest(m)
    \/ \E m \in Members : DeliverStateSync(m)
    \/ \E m \in Members : DeliverGameEnd(m)
    \/ \E m \in Members : DeliverError(m)

Spec == Init /\ [][Next]_vars

(***************************************************************************)
(* Properties of the replication protocol.                                 *)
(***************************************************************************)
\* The last step delivered a state-broadcast to m.
SyncedAt(m, ev) == ev.kind = "state" /\ ev.peer = m

(* C6: receivers never regress: a member's version never decreases from one *)
(* event to the next, and a member that already holds a snapshot replaces   *)
(* it with an incoming one only if the incoming version exceeds its own.    *)
C6_NeverRegress ==
    [][\A m \in Members :
         /\ HasId(state[m]) =>
              HasId(state'[m]) /\ state'[m].version >= state[m].version
         /\ (SyncedAt(m, lastEvent') /\ HasId(state[m]) /\ state'[m] # state[m]) =>
              /\ state'[m] = Head(net[m]).gameState
              /\ Head(net[m]).gameState.version > state[m].version]_vars

\* A member that holds a snapshot was just delivered an older one and kept its own.
C6_Witness ==
    \E m \in Members :
        /\ SyncedAt(m, lastEvent) /\ lastEvent.changed = {}
        /\ HasId(state[m]) /\ lastEvent.v < state[m].version

(* C7: a transfer appears at most once in the transfer list of every peer:  *)
(* no two entries of a list carry the same transfer id.                     *)
C7_AppliedOnce ==
    \A p \in Peers :
        HasId(state[p]) =>
            \A i, j \in 1..Len(state[p].transactions) :
                i # j => state[p].transactions[i].id # state[p].transactions[j].id

\* Nothing is in flight on an open channel.
Quiescent == \A m \in conn : net[m] = << >> /\ req[m] = << >>

SameView(s, a) ==
    /\ HasId(s) /\ s.id = a.id /\ s.version = a.version
    /\ s.transactions = a.transactions
    /\ DOMAIN s.players = DOMAIN a.players
    /\ \A p \in DOMAIN a.players : s.players[p].balance = a.players[p].balance

(* C8: once everything sent on the open channels has been delivered, every  *)
(* connected member the authority lists as a player holds the authority's   *)
(* view: same session id, version, balances and transfer list.              *)
C8_Converged ==
    Quiescent =>
        \A m \in conn :
            m \in DOMAIN state[Admin].players => SameView(state[m], state[Admin])

(* C9: a member's snapshot changes only when it receives a state-broadcast  *)
(* of the authority: never by a local intent, never by a lifecycle message. *)
C9_OnlyByBroadcast ==
    lastEvent.kind # "none" =>
        \A m \in Members : m \in lastEvent.changed => SyncedAt(m, lastEvent)

InFlight(m) == SelectSeq(net[m], LAMBDA e : e.type = "state")

Rank(status) == IF status = "configuring" THEN 0 ELSE IF status = "active" THEN 1 ELSE 2

(* C14: the status of a snapshot only moves forward, configuring -> active  *)
(* -> ended: no step takes the snapshot a peer holds to an earlier status.  *)
C14_PhaseOneWay ==
    [][\A p \in Peers :
         (HasId(state[p]) /\ HasId(state'[p])) =>
             Rank(state'[p].status) >= Rank(state[p].status)]_vars

\* The last engine call was a transfer.
Transferred == outcome.kind = "transfer"

(* C15: a transfer applied to a snapshot whose status is not active fails   *)
(* with the not-active error and leaves the snapshot as it was.             *)
C15_NotRunningFails ==
    (/\ Transferred /\ outcome.pre.status # "active"
     /\ Exists(outcome.pre, outcome.tx.senderId)
     /\ Exists(outcome.pre, outcome.tx.receiverId)
     /\ outcome.tx.senderId # outcome.tx.receiverId /\ outcome.tx.amount > 0
     /\ isInfiniteStash(outcome.pre, outcome.tx.senderId)
           \/ Balance(outcome.pre, outcome.tx.senderId) >= outcome.tx.amount)
    => outcome.err = ErrNotActive /\ ledger = outcome.pre

(* C16: a transfer of a positive, covered amount whose sender and receiver  *)
(* are the same existing entity fails with the same-endpoint error and      *)
(* leaves the snapshot, and so that entity's balance, as it was.            *)
C16_SelfTransferFails ==
    (/\ Transferred /\ outcome.tx.senderId = outcome.tx.receiverId
     /\ Exists(outcome.pre, outcome.tx.senderId) /\ outcome.tx.amount > 0
     /\ isInfiniteStash(outcome.pre, outcome.tx.senderId)
           \/ Balance(outcome.pre, outcome.tx.senderId) >= outcome.tx.amount)
    => outcome.err = ErrSame /\ ledger = outcome.pre

\* What a closed snapshot must keep: everything but the version.
Content(s) == [status |-> s.status, players |-> s.players, stashes |-> s.stashes,
               transactions |-> s.transactions]

(* C17: the authority's snapshot becomes ended only by its own end-game     *)
(* step, and once the snapshot a peer holds is ended no later step changes  *)
(* its status, players (names, balances), stashes or transfer list.         *)
C17_ClosedIsFrozen ==
    [][/\ (state[Admin].status # "ended" /\ state'[Admin].status = "ended")
              => lastEvent'.kind = "endGame"
       /\ \A p \in Peers :
             (HasId(state[p]) /\ state[p].status = "ended")
                 => HasId(state'[p]) /\ Content(state'[p]) = Content(state[p])]_vars

\* The last step was the connection of member m.
Connected(m) == lastEvent'.kind = "connect" /\ m \in conn' /\ m \notin conn

(* C18: admitting a player that is already present returns the snapshot it  *)
(* was given, whatever the status: when a known member connects, the        *)
(* authority's snapshot (players, balances, names, version) is unchanged.   *)
C18_AdmitKnownIsNoOp ==
    /\ [](\A p \in DOMAIN state[Admin].players :
             addPlayer(state[Admin], p) = Ok(state[Admin]))
    /\ [][\A m \in Members :
             (Connected(m) /\ m \in DOMAIN state[Admin].players)
                 => state'[Admin] = state[Admin]]_vars

\* A known member has just reconnected to an ended game.
C18_Witness ==
    /\ lastEvent.kind = "connect" /\ lastEvent.changed = {}
    /\ conn # {} /\ conn \subseteq DOMAIN state[Admin].players
    /\ state[Admin].status = "ended"

(* C19: admitting an unknown player to a game that has started fails with   *)
(* the already-started error, and no step adds a player to the authority's  *)
(* snapshot while its status is active or ended.                            *)
C19_NoAdmitAfterStart ==
    /\ [](hasGameStarted(state[Admin]) =>
             \A p \in Peers \ DOMAIN state[Admin].players :
                 addPlayer(state[Admin], p) = Throw(state[Admin], ErrStarted))
    /\ [][hasGameStarted(state[Admin]) =>
             DOMAIN state'[Admin].players = DOMAIN state[Admin].players]_vars

\* An unknown peer has just connected to a started game and was not admitted.
C19_Witness ==
    /\ lastEvent.kind = "connect" /\ lastEvent.changed = {}
    /\ hasGameStarted(state[Admin])
    /\ \E m \in conn : m \notin DOMAIN state[Admin].players

(* C20: when a peer connects to the authority while the game is configuring *)
(* and the peer is not yet a player, it becomes a player with balance 0 and *)
(* without the admin flag, and the newest envelope to every connected peer  *)
(* is a state-broadcast of the snapshot that contains it; no member's own   *)
(* snapshot changes in a connection step.                                   *)
C20_ConnectAdmits ==
    [][\A m \in Members :
         Connected(m) =>
            /\ (state[Admin].status = "configuring" /\ m \notin DOMAIN state[Admin].players)
                  => /\ DOMAIN state'[Admin].players = DOMAIN state[Admin].players \cup {m}
                     /\ state'[Admin].players[m].balance = 0
                     /\ ~state'[Admin].players[m].isAdmin
                     /\ \A c \in conn' :
                           /\ net'[c] # << >>
                           /\ net'[c][Len(net'[c])] = StateSync(state'[Admin])
            /\ \A x \in Members : state'[x] = state[x]]_vars

\* The second member has just been admitted while the first is connected.
C20_Witness ==
    /\ lastEvent.kind = "connect" /\ Admin \in lastEvent.changed
    /\ conn = Members
    /\ DOMAIN state[Admin].players = Peers
    /\ state[Admin].status = "configuring"

\* The last step delivered to m the authority's current snapshot.
DeliveredCurrent(m) ==
    /\ lastEvent'.kind = "state" /\ lastEvent'.peer = m
    /\ net[m] # << >> /\ Head(net[m]) = StateSync(state[Admin])

(* C21: when a known player connects to the authority while the game is     *)
(* active, no player is added, the newest envelope on its channel is a      *)
(* state-broadcast of the authority's snapshot, and once that snapshot is   *)
(* delivered the member's balances are the authority's.                     *)
C21_ReconnectSyncs ==
    [][\A m \in Members :
         /\ (Connected(m) /\ state[Admin].status = "active"
                 /\ m \in DOMAIN state[Admin].players)
               => /\ state'[Admin] = state[Admin]
                  /\ net'[m] # << >>
                  /\ net'[m][Len(net'[m])] = StateSync(state[Admin])
         /\ (DeliveredCurrent(m) /\ state[Admin].status = "active")
               => /\ HasId(state'[m])
                  /\ state'[m].players = state[Admin].players]_vars

\* The last step was the loss of the channel between the authority and m.
Disconnected(m) == lastEvent'.kind = "disconnect" /\ lastEvent'.peer = m

(* C22: when the channel to a player closes, the authority keeps the        *)
(* player's record, balance and the transfer list, and a state-broadcast of *)
(* its snapshot is appended to the channel of every peer still connected.   *)
C22_DisconnectRebroadcasts ==
    [][\A m \in Members :
         (Disconnected(m) /\ m \in DOMAIN state[Admin].players)
            => /\ m \in DOMAIN state'[Admin].players
               /\ state'[Admin].players[m].balance = state[Admin].players[m].balance
               /\ state'[Admin].transactions = state[Admin].transactions
               /\ \A c \in conn' :
                     /\ Len(net'[c]) = Len(net[c]) + 1
                     /\ net'[c][Len(net'[c])] = StateSync(state'[Admin])]_vars

\* The last step was a transfer intent of member m.
Intended(m) ==
    /\ lastEvent'.peer = m
    /\ lastEvent'.kind \in {"createTransaction", "processTransaction", "notConnected"}

Refused(m) ==
    \/ validateTransaction(state[Admin], Head(req[m])) # "none"
    \/ ~processTransaction(state[Admin], Head(req[m])).ok

(* C24: a forwarded request that the pre-check accepts is one the engine    *)
(* applies, and when the authority handles a request that must be refused   *)
(* it appends one error envelope to the requester's channel and nothing to  *)
(* any other, keeps every snapshot (and version), and only removes that     *)
(* request from the queues, so the requests behind it are still served.     *)
C24_ErrorToRequester ==
    /\ [](\A m \in Members :
             (req[m] # << >> /\ validateTransaction(state[Admin], Head(req[m])) = "none")
                => processTransaction(state[Admin], Head(req[m])).ok)
    /\ [][\A m \in Members :
            (lastEvent'.kind = "request" /\ req'[m] # req[m] /\ Refused(m))
               => /\ state' = state
                  /\ net' = [net EXCEPT ![m] =
                               Append(@, ErrorMsg(validateTransaction(state[Admin], Head(req[m]))))]
                  /\ req' = [req EXCEPT ![m] = Tail(@)]]_vars

\* The authority has applied one request and has just refused the next, with
\* the other member connected and no error on its channel.
C24_Witness ==
    /\ lastEvent.kind = "request" /\ lastEvent.changed = {}
    /\ net["m1"] # << >> /\ net["m1"][Len(net["m1"])].type = "error"
    /\ "m2" \in conn /\ \A i \in 1..Len(net["m2"]) : net["m2"][i].type # "error"
    /\ Len(state[Admin].transactions) = 1

(***************************************************************************)
(* SpecPeer: PeerService on three nodes.  Channels open and close one end  *)
(* at a time, as the underlying data channels do.                          *)
(***************************************************************************)
PeerMessageType ==
    {"transaction-request", "state", "game-start", "game-end", "player-name", "error"}

\* An envelope as it arrives: its type ("" when missing), whether it has a
\* payload, the payload fields with a truthy value, whether the amount is a
\* number, and the amount.
Envelope(type, payload, has, num, amount) ==
    [type |-> type, payload |-> payload, has |-> has, num |-> num, amount |-> amount]

TransferFields == {"id", "timestamp", "senderId", "receiverId"}
StateEnvelope == Envelope("state", TRUE, {"gameState"}, FALSE, 0)
RequestEnvelope(amount) == Envelope("transaction-request", TRUE, TransferFields, TRUE, amount)

\* The envelopes a remote peer may put on a channel.
Envelopes ==
    { StateEnvelope,
      Envelope("state", TRUE, {}, FALSE, 0),
      RequestEnvelope(1), RequestEnvelope(0), RequestEnvelope(-1),
      Envelope("transaction-request", TRUE, TransferFields, FALSE, 0),
      Envelope("transaction-request", TRUE, TransferFields \ {"receiverId"}, TRUE, 1),
      Envelope("chat", TRUE, {"text"}, FALSE, 0),
      Envelope("", TRUE, {"gameState"}, FALSE, 0),
      Envelope("game-end", FALSE, {}, FALSE, 0) }

\* messageUtils.validateMessage
validateMessage(message) ==
    IF message.type = "" \/ ~message.payload THEN FALSE
    ELSE IF message.type \notin PeerMessageType THEN FALSE
    ELSE CASE message.type = "error" -> {"code", "message"} \subseteq message.has
           [] message.type = "transaction-request" ->
                 TransferFields \subseteq message.has /\ message.num
           [] message.type = "state" -> "gameState" \in message.has
           [] message.type = "game-start" -> "startedAt" \in message.has
           [] message.type = "game-end" -> "endedAt" \in message.has
           [] message.type = "player-name" -> {"playerId", "playerName"} \subseteq message.has

PeerConnectEvent(r) == [type |-> "peer:connect", peerId |-> r]
PeerDisconnectEvent(r) == [type |-> "peer:disconnect", peerId |-> r]
MessageEvent(r, m) == [type |-> "message", peerId |-> r, message |-> m]
ErrorEvent(e) == [type |-> "error", message |-> e]
Call(op, p, r, res, ev) == [op |-> op, p |-> p, r |-> r, res |-> res, ev |-> ev]

\* The link and the end behind p's connectedPeers entry c for r.
LinkOf(p, r, c) == IF c = "out" THEN <<p, r>> ELSE <<r, p>>
IsConnectedToPeer(p, r) == svc[p].connectedPeers[r] # "none"
Entry(s, r, c) == [s EXCEPT !.connectedPeers[r] = c]

\* No end of the channel is open or opening and no signal is in flight.
Down(k) == k.i \in {"none", "closed"} /\ k.t \in {"none", "closed"} /\ k.sig = {}

PeerInit ==
    /\ link = [l \in Links |-> NoLink]
    /\ svc = [p \in Nodes |-> NoService]
    /\ calls = MaxCalls
    /\ lastCall = NoCall /\ pending = << >>
    /\ state = [p \in Peers |-> Null] /\ conn = {}
    /\ net = [m \in Members |-> << >>] /\ req = [m \in Members |-> << >>]
    /\ nextTx = 0 /\ intents = 0 /\ lastEvent = NoOutcome
    /\ ledger = Null /\ outcome = NoOutcome
    /\ local = Null /\ merged = {} /\ lastMerge = NoOutcome

\* PeerService.connectToPeer up to the call of peer.connect
connectToPeer(s, r) ==
    IF s.connectedPeers[r] # "none" THEN "already"
    ELSE IF r \in s.pendingConnections THEN "pending"
    ELSE "dial"

\* connectToPeer(r) called on p. A new channel object replaces the record of
\* the pair; res tells whether the earlier one was still open at p's end.
ConnectToPeer(p, r) ==
    /\ calls > 0 /\ calls' = calls - 1
    /\ LET k == link[<<p, r>>]
           d == connectToPeer(svc[p], r)
       IN  /\ d = "already" => UNCHANGED <<link, svc>>
           /\ d = "pending" =>
                 /\ link' = [link EXCEPT ![<<p, r>>].holders = @ + 1]
                 /\ UNCHANGED svc
           /\ d = "dial" =>
                 /\ Down(k) \/ k.i = "open"
                 /\ link' = [link EXCEPT ![<<p, r>>] =
                               [NoLink EXCEPT !.i = "pending", !.promise = "pending",
                                              !.holders = 1]]
                 /\ svc' = [svc EXCEPT ![p].pendingConnections = @ \cup {r}]
           /\ lastCall' = Call("connectToPeer", p, r,
                               IF d = "dial" /\ k.i \in {"pending", "open"} THEN "second" ELSE d,
                               NoEvent)
    /\ UNCHANGED <<engineVars, mergeVars, sysVars, pending>>

\* connection.on('open') at the dialling end; res is the number of callers
\* whose promise it resolves
OpenI(l) ==
    /\ link[l].i = "pending"
    /\ link' = [link EXCEPT ![l].i = "open", ![l].promise = "none", ![l].holders = 0]
    /\ svc' = [svc EXCEPT ![l[1]] =
                 [Entry(@, l[2], "out") EXCEPT !.pendingConnections = @ \ {l[2]}]]
    /\ lastCall' = Call("open", l[1], l[2],
                        IF link[l].promise = "pending" THEN link[l].holders ELSE 0,
                        PeerConnectEvent(l[2]))
    /\ UNCHANGED <<calls, engineVars, mergeVars, sysVars, pending>>

\* peer.on('connection') and connection.on('open') at the dialled end
OpenT(l) ==
    /\ link[l].t = "none" /\ link[l].i \in {"pending", "open"}
    /\ link' = [link EXCEPT ![l].t = "open"]
    /\ svc' = [svc EXCEPT ![l[2]] = Entry(@, l[1], "in")]
    /\ lastCall' = Call("open", l[2], l[1], 0, PeerConnectEvent(l[1]))
    /\ UNCHANGED <<calls, engineVars, mergeVars, sysVars, pending>>

\* The 10 s timer of connectToPeer: the promise is rejected, nothing else
Timeout(l) ==
    /\ link[l].promise = "pending"
    /\ link' = [link EXCEPT ![l].promise = "rejected"]
    /\ lastCall' = Call("timeout", l[1], l[2], "rejected", NoEvent)
    /\ UNCHANGED <<svc, calls, engineVars, mergeVars, sysVars, pending>>

\* connection.on('error') before the channel opened
DialError(l) ==
    /\ link[l].i = "pending" /\ link[l].t = "none"
    /\ link' = [link EXCEPT ![l].i = "closed", ![l].promise = "none", ![l].holders = 0]
    /\ svc' = [svc EXCEPT ![l[1]].pendingConnections = @ \ {l[2]}]
    /\ lastCall' = Call("error", l[1], l[2], "rejected", NoEvent)
    /\ UNCHANGED <<calls, engineVars, mergeVars, sysVars, pending>>

\* The channel record after p's connection c to r took envelope m.
Put(lk, p, r, c, m) ==
    IF c = "out" THEN [lk EXCEPT ![<<p, r>>].toT = Append(@, m)]
    ELSE [lk EXCEPT ![<<r, p>>].toI = Append(@, m)]
Wire(lk, p, r, c) == IF c = "out" THEN lk[<<p, r>>].toT ELSE lk[<<r, p>>].toI

\* sendToPeer(r, m) called on p
SendToPeer(p, r, m) ==
    /\ calls > 0 /\ calls' = calls - 1
    /\ LET c == svc[p].connectedPeers[r]
       IN  IF c = "none"
           THEN /\ lastCall' = Call("sendToPeer", p, r, "error", ErrorEvent(ErrNoConnection))
                /\ UNCHANGED link
           ELSE /\ Len(Wire(link, p, r, c)) < MaxWire
                /\ link' = Put(link, p, r, c, m)
                /\ lastCall' = Call("sendToPeer", p, r, "sent", NoEvent)
    /\ UNCHANGED <<svc, engineVars, mergeVars, sysVars, pending>>

RECURSIVE PutAll(_, _, _, _)
PutAll(lk, p, rs, m) ==
    IF rs = {} THEN lk
    ELSE LET r == CHOOSE x \in rs : TRUE
         IN  PutAll(Put(lk, p, r, svc[p].connectedPeers[r], m), p, rs \ {r}, m)

\* A broadcast that gives up at the first send that fails.
broadcastTo_FailFast(targets, fail) == IF fail = {} THEN targets ELSE {}

\* PeerService.broadcast: one sendToPeer per key of connectedPeers, all
\* settled; the result is the peers whose send went through.
broadcastTo(targets, fail) == targets \ fail

\* broadcast(m) called on p; connection.send may throw on any one channel
Broadcast(p, m) ==
    /\ calls > 0 /\ calls' = calls - 1
    /\ LET targets == { r \in Nodes : IsConnectedToPeer(p, r) }
       IN  /\ \A r \in targets : Len(Wire(link, p, r, svc[p].connectedPeers[r])) < MaxWire
           /\ \E fail \in {{}} \cup {{r} : r \in targets} :
                 /\ link' = PutAll(link, p, broadcastTo(targets, fail), m)
                 /\ lastCall' = Call("broadcast", p, targets, fail,
                                     IF fail = {} THEN NoEvent ELSE ErrorEvent("Failed to send"))
    /\ UNCHANGED <<svc, engineVars, mergeVars, sysVars, pending>>

\* PeerService.handleMessage at the end that receives, from remotePeerId
handleMessage(senderId, message) ==
    IF validateMessage(message) THEN MessageEvent(senderId, message) ELSE NoEvent

\* connection.on('data') at the dialled end of l
DeliverT(l) ==
    /\ link[l].toT # << >> /\ link[l].t = "open"
    /\ link' = [link EXCEPT ![l].toT = Tail(@)]
    /\ lastCall' = Call("data", l[2], l[1], Head(link[l].toT),
                        handleMessage(l[1], Head(link[l].toT)))
    /\ UNCHANGED <<svc, calls, engineVars, mergeVars, sysVars, pending>>

\* connection.on('data') at the dialling end of l
DeliverI(l) ==
    /\ link[l].toI # << >> /\ link[l].i = "open"
    /\ link' = [link EXCEPT ![l].toI = Tail(@)]
    /\ lastCall' = Call("data", l[1], l[2], Head(link[l].toI),
                        handleMessage(l[2], Head(link[l].toI)))
    /\ UNCHANGED <<svc, calls, engineVars, mergeVars, sysVars, pending>>

\* A close that the other end never hears of.
Closed_Silent(k, e, told) ==
    IF e = "i" THEN [k EXCEPT !.i = "closed", !.toI = << >>, !.sig = @ \ {"i"}]
    ELSE [k EXCEPT !.t = "closed", !.toT = << >>, !.sig = @ \ {"t"}]

\* The channel after its end e ("i" or "t") closed: the close handler runs if
\* the end was open, what was in flight to it is lost, and the other end is
\* signalled when told is true.
Closed(k, e, told) ==
    IF e = "i"
    THEN [k EXCEPT !.i = "closed", !.toI = << >>,
                   !.t = IF told /\ @ = "none" THEN "closed" ELSE @,
                   !.sig = IF told /\ k.t = "open" THEN (@ \cup {"t"}) \ {"i"} ELSE @ \ {"i"}]
    ELSE [k EXCEPT !.t = "closed", !.toT = << >>,
                   !.sig = IF told /\ k.i \in {"pending", "open"}
                           THEN (@ \cup {"i"}) \ {"t"} ELSE @ \ {"t"}]

\* disconnectFromPeer(r) called on p: connection.close() runs the close
\* handler of p's end, then the entry is deleted.
DisconnectFromPeer(p, r) ==
    /\ calls > 0 /\ calls' = calls - 1
    /\ LET c == svc[p].connectedPeers[r]
           l == LinkOf(p, r, c)
       IN  IF c = "none"
           THEN /\ lastCall' = Call("disconnectFromPeer", p, r, "none", NoEvent)
                /\ UNCHANGED <<link, svc>>
           ELSE /\ link' = [link EXCEPT ![l] = Closed(@, IF c = "out" THEN "i" ELSE "t", TRUE)]
                /\ svc' = [svc EXCEPT ![p] = Entry(@, r, "none")]
                /\ lastCall' = Call("disconnectFromPeer", p, r, l, PeerDisconnectEvent(r))
    /\ UNCHANGED <<engineVars, mergeVars, sysVars, pending>>

\* connection.on('close') at the end e of l, when the other end has closed
CloseSignal(l, e) ==
    /\ e \in link[l].sig
    /\ LET p == IF e = "i" THEN l[1] ELSE l[2]
           r == IF e = "i" THEN l[2] ELSE l[1]
           wasOpen == IF e = "i" THEN link[l].i = "open" ELSE link[l].t = "open"
       IN  /\ link' = [link EXCEPT ![l] =
                         IF (e = "i" /\ @.i \in {"pending", "open"}) \/ (e = "t" /\ @.t = "open")
                         THEN Closed(@, e, FALSE) ELSE [@ EXCEPT !.sig = @ \ {e}]]
           /\ svc' = IF wasOpen THEN [svc EXCEPT ![p] = Entry(@, r, "none")] ELSE svc
           /\ lastCall' = Call("close", p, r, wasOpen,
                               IF wasOpen THEN PeerDisconnectEvent(r) ELSE NoEvent)
    /\ UNCHANGED <<calls, engineVars, mergeVars, sysVars, pending>>

PeerNext ==
    \/ \E l \in Links : ConnectToPeer(l[1], l[2])
    \/ \E l \in Links : OpenI(l)
    \/ \E l \in Links : OpenT(l)
    \/ \E l \in Links : Timeout(l)
    \/ \E l \in Links : DialError(l)
    \/ \E m \in Envelopes : SendToPeer("p2", "p1", m)
    \/ Broadcast("p1", StateEnvelope)
    \/ \E l \in Links : DeliverT(l)
    \/ \E l \in Links : DeliverI(l)
    \/ \E l \in Links : DisconnectFromPeer(l[1], l[2]) \/ DisconnectFromPeer(l[2], l[1])
    \/ \E l \in Links, e \in {"i", "t"} : CloseSignal(l, e)

SpecPeer == PeerInit /\ [][PeerNext]_vars

(* C26: connectToPeer dials only when the node has no channel of its own to *)
(* that peer open or opening; a call made while the connect is in flight    *)
(* joins the promise of the first call and all its holders are resolved by  *)
(* the one open event; every peer:connect event comes from an end of a      *)
(* channel that opens in that step; and right after the channel opened at   *)
(* the calling end isConnectedToPeer is true.                               *)
C26_ConnectIdempotent ==
    /\ [](lastCall.op = "connectToPeer" => lastCall.res # "second")
    /\ [][\A l \in Links :
            /\ (lastCall'.op = "connectToPeer" /\ lastCall'.p = l[1] /\ lastCall'.r = l[2]
                    /\ (IsConnectedToPeer(l[1], l[2]) \/ link[l].i = "pending"))
                  => /\ link'[l].i = link[l].i /\ link'[l].t = link[l].t
                     /\ svc' = svc
                     /\ (~IsConnectedToPeer(l[1], l[2]) /\ link[l].promise = "pending")
                           => link'[l].holders = link[l].holders + 1
            /\ (lastCall'.op = "open" /\ lastCall'.p = l[1] /\ lastCall'.r = l[2]
                    /\ link'[l].i = "open" /\ link[l].i # "open")
                  => /\ IsConnectedToPeer(l[1], l[2])'
                     /\ link[l].promise = "pending" => lastCall'.res = link[l].holders]_vars
    /\ [][lastCall'.ev.type = "peer:connect" =>
            \E l \in Links :
               \/ link[l].i # "open" /\ link'[l].i = "open"
                     /\ lastCall'.p = l[1] /\ lastCall'.ev.peerId = l[2]
               \/ link[l].t # "open" /\ link'[l].t = "open"
                     /\ lastCall'.p = l[2] /\ lastCall'.ev.peerId = l[1]]_vars

\* An envelope with a known type and every field its kind requires, a transfer
\* request with a positive numeric amount.
WellFormed(m) ==
    /\ validateMessage(m)
    /\ m.type = "transaction-request" => m.amount > 0

(* C25: an envelope that arrives on a channel is emitted as a message event  *)
(* tagged with the sender's identity if and only if it has a known type and *)
(* the fields its kind requires (for a transfer request a positive numeric  *)
(* amount and both endpoints); otherwise nothing is emitted; in both cases  *)
(* the channel stays open at both ends and the service's maps are unchanged.*)
C25_ValidationGate ==
    [][lastCall'.op = "data" =>
          /\ lastCall'.ev = IF WellFormed(lastCall'.res)
                            THEN MessageEvent(lastCall'.r, lastCall'.res) ELSE NoEvent
          /\ svc' = svc
          /\ \A l \in Links : link'[l].i = link[l].i /\ link'[l].t = link[l].t]_vars

(* C27: a broadcast called on a node puts the envelope on the channel of    *)
(* every peer the node is connected to at the time of the call, except the  *)
(* one whose send fails, whose channel keeps what it held; no entry of the  *)
(* service changes; and an envelope that passes validation is emitted where *)
(* it arrives as a message event tagged with the identity of the node at    *)
(* the other end of the channel.                                            *)
C27_BroadcastReachesAll ==
    /\ [][lastCall'.op = "broadcast" =>
            LET p == lastCall'.p
                fail == lastCall'.res
            IN  /\ lastCall'.r = { r \in Nodes : IsConnectedToPeer(p, r) }
                /\ fail \subseteq lastCall'.r
                /\ svc' = svc
                /\ \E m \in Envelopes : \A r \in lastCall'.r :
                      LET c == svc[p].connectedPeers[r]
                      IN  Wire(link', p, r, c) =
                             IF r \in fail THEN Wire(link, p, r, c)
                             ELSE Append(Wire(link, p, r, c), m)]_vars
    /\ [][lastCall'.op = "data" /\ validateMessage(lastCall'.res) =>
            \E l \in Links :
               \/ /\ link[l].toT # << >> /\ link'[l].toT = Tail(link[l].toT)
                  /\ lastCall'.p = l[2]
                  /\ lastCall'.ev = MessageEvent(l[1], Head(link[l].toT))
               \/ /\ link[l].toI # << >> /\ link'[l].toI = Tail(link[l].toI)
                  /\ lastCall'.p = l[1]
                  /\ lastCall'.ev = MessageEvent(l[2], Head(link[l].toI))]_vars

\* p1, connected to p2 and p3, broadcast; the send to p3 failed and the
\* envelope is on its way to p2 all the same.
C27_Witness ==
    /\ lastCall.op = "broadcast" /\ lastCall.p = "p1"
    /\ lastCall.r = {"p2", "p3"} /\ lastCall.res = {"p3"}
    /\ Wire(link, "p1", "p2", svc["p1"].connectedPeers["p2"]) = <<StateEnvelope>>
    /\ Wire(link, "p1", "p3", svc["p1"].connectedPeers["p3"]) = << >>

\* The end of channel l at node p, and the state of the other end.
EndOf(l, p) == IF p = l[1] THEN "i" ELSE "t"
OtherEnd(k, e) == IF e = "i" THEN k.t ELSE k.i

(* C28: disconnectFromPeer called on a node that holds a channel to the     *)
(* peer emits peer:disconnect with the peer's identity, leaves the node not *)
(* connected to the peer and, when the other end is open, puts the close    *)
(* signal in flight to it; the close signal arriving at an open end emits   *)
(* peer:disconnect with the identity of the node that closed and leaves the *)
(* end's node not connected to it; and no close signal is lost: a channel   *)
(* closed at one end and still open at the other has the signal in flight.  *)
C28_DisconnectSeenByBoth ==
    /\ [][(lastCall'.op = "disconnectFromPeer" /\ IsConnectedToPeer(lastCall'.p, lastCall'.r)) =>
            LET p == lastCall'.p
                r == lastCall'.r
                l == LinkOf(p, r, svc[p].connectedPeers[r])
            IN  /\ lastCall'.ev = PeerDisconnectEvent(r)
                /\ svc'[p].connectedPeers[r] = "none"
                /\ OtherEnd(link[l], EndOf(l, p)) = "open" => EndOf(l, r) \in link'[l].sig]_vars
    /\ [][(lastCall'.op = "close" /\ lastCall'.res) =>
            /\ lastCall'.ev = PeerDisconnectEvent(lastCall'.r)
            /\ svc'[lastCall'.p].connectedPeers[lastCall'.r] = "none"]_vars
    /\ [](\A l \in Links :
            /\ (link[l].t = "closed" /\ link[l].i = "open") => "i" \in link[l].sig
            /\ (link[l].i = "closed" /\ link[l].t = "open") => "t" \in link[l].sig)

\* p2 dialled p1, the channel opened, p2 disconnected and the close signal
\* reached p1: both ends are closed and neither node is connected to the other.
C28_Witness ==
    /\ lastCall.op = "close" /\ lastCall.p = "p1"
    /\ lastCall.ev = PeerDisconnectEvent("p2")
    /\ link[<<"p2", "p1">>].i = "closed" /\ link[<<"p2", "p1">>].t = "closed"
    /\ link[<<"p1", "p2">>].i = "none"
    /\ ~IsConnectedToPeer("p1", "p2") /\ ~IsConnectedToPeer("p2", "p1")

(* C29: a member that started from a snapshot loaded from the store holds   *)
(* the authority's snapshot once the first state-broadcast of the authority *)
(* has been merged, whatever session id and version the loaded one carried. *)
C29_LoadedIsCandidate ==
    (/\ lastMerge.kind = "syncState"
     /\ merged = {lastMerge.inc}
     /\ lastMerge.cur \in Stored
     /\ lastMerge.inc \in AuthoritySnapshots)
        => local = lastMerge.inc

(* C30: ending the game leaves the authority's snapshot ended, and ending   *)
(* the snapshot that results once more gives the same snapshot, version     *)
(* included: close(close(s)) = close(s).                                    *)
C30_CloseIdempotent ==
    [][lastEvent'.kind = "endGame" =>
          /\ state'[Admin] = endGame(state[Admin])
          /\ state'[Admin].status = "ended"
          /\ endGame(state'[Admin]) = state'[Admin]]_vars

(***************************************************************************)
(* SpecLedger: the authority's GameService adding transfers to its         *)
(* snapshot and editing them, in place.                                    *)
(***************************************************************************)
ErrNoTransaction   == "Transaction not found"
ErrEditSender      == "Sender has insufficient balance for the edit"
ErrEditReceiver    == "Receiver has insufficient balance for the edit"

\* balance += delta on the player id, else on the stash id
Adjust(s, id, delta) ==
    IF id \in DOMAIN s.players THEN [s EXCEPT !.players[id].balance = @ + delta]
    ELSE IF id \in DOMAIN s.stashes THEN [s EXCEPT !.stashes[id].balance = @ + delta]
    ELSE s

\* An addTransaction that does not compare the sender's balance with the amount.
addTransaction_NoFundsCheck(s, senderId, receiverId, amount) ==
    LET tx == [id |-> Len(s.transactions) + 1, senderId |-> senderId,
               receiverId |-> receiverId, amount |-> amount,
               isEdited |-> FALSE, originalAmount |-> 0]
    IN  IF amount <= 0 THEN Throw(s, ErrAmount)
        ELSE IF ~Exists(s, senderId) THEN Throw(s, ErrSender)
        ELSE IF ~Exists(s, receiverId) THEN Throw(s, ErrReceiver)
        ELSE LET s1 == IF isInfiniteStash(s, senderId) THEN s ELSE Adjust(s, senderId, -amount)
                 s2 == IF isInfiniteStash(s, receiverId) THEN s1 ELSE Adjust(s1, receiverId, amount)
             IN  Ok([s2 EXCEPT !.transactions = Append(@, tx), !.version = @ + 1])

\* GameService.addTransaction on the authority: the balances are updated in
\* place, the sender's first. originalAmount 0 stands for "not set".
addTransaction(s, senderId, receiverId, amount) ==
    LET tx == [id |-> Len(s.transactions) + 1, senderId |-> senderId,
               receiverId |-> receiverId, amount |-> amount,
               isEdited |-> FALSE, originalAmount |-> 0]
    IN  IF amount <= 0 THEN Throw(s, ErrAmount)
        ELSE IF ~Exists(s, senderId) THEN Throw(s, ErrSender)
        ELSE IF ~Exists(s, receiverId) THEN Throw(s, ErrReceiver)
        ELSE IF ~isInfiniteStash(s, senderId) /\ Entity(s, senderId).balance < amount
             THEN Throw(s, ErrInsufficient)
        ELSE LET s1 == IF isInfiniteStash(s, senderId) THEN s ELSE Adjust(s, senderId, -amount)
                 s2 == IF isInfiniteStash(s, receiverId) THEN s1 ELSE Adjust(s1, receiverId, amount)
             IN  Ok([s2 EXCEPT !.transactions = Append(@, tx), !.version = @ + 1])

\* GameService.editTransaction: the snapshot is changed in place, so what was
\* assigned before a throw stays assigned (the state of a Throw).
editTransaction(s, transactionId, newAmount) ==
    IF transactionId \notin 1..Len(s.transactions) THEN Throw(s, ErrNoTransaction)
    ELSE IF newAmount <= 0 THEN Throw(s, ErrAmount)
    ELSE LET t == s.transactions[transactionId]
             s0 == IF t.isEdited THEN s
                   ELSE [s EXCEPT !.transactions[transactionId].originalAmount = t.amount]
             diff == newAmount - t.amount
             s1 == IF diff = 0 \/ isInfiniteStash(s0, t.senderId) THEN s0
                   ELSE Adjust(s0, t.senderId, -diff)
             s2 == IF diff = 0 \/ isInfiniteStash(s1, t.receiverId) THEN s1
                   ELSE Adjust(s1, t.receiverId, diff)
         IN  IF diff # 0 /\ ~isInfiniteStash(s0, t.senderId) /\ Exists(s0, t.senderId)
                  /\ diff > 0 /\ Entity(s0, t.senderId).balance < diff
             THEN Throw(s0, ErrEditSender)
             ELSE IF diff # 0 /\ ~isInfiniteStash(s1, t.receiverId) /\ Exists(s1, t.receiverId)
                       /\ diff < 0 /\ Entity(s1, t.receiverId).balance < -diff
             THEN Throw(s1, ErrEditReceiver)
             ELSE Ok([s2 EXCEPT !.transactions[transactionId].amount = newAmount,
                                !.transactions[transactionId].isEdited = TRUE,
                                !.version = @ + 1])

\* The authority's snapshot of a running game.
LedgerInputs == { EngineSnapshot(ba, 0, 0, "active") : ba \in 0..MaxBal }

LedgerInit ==
    /\ ledger \in LedgerInputs
    /\ outcome = NoOutcome
    /\ local = Null /\ merged = {} /\ lastMerge = NoOutcome
    /\ PeerIdle /\ pending = << >>
    /\ state = [p \in Peers |-> Null] /\ conn = {}
    /\ net = [m \in Members |-> {}] /\ req = [m \in Members |-> << >>]
    /\ nextTx = 0 /\ intents = 0 /\ lastEvent = NoOutcome

\* The highest balance the model follows.
BalanceCap == MaxBal + MaxAmt

Capped(s) ==
    /\ \A p \in DOMAIN s.players : s.players[p].balance <= BalanceCap
    /\ \A x \in DOMAIN s.stashes : s.stashes[x].balance <= BalanceCap

\* GameService.addTransaction
AddTransaction ==
    /\ Len(ledger.transactions) <= MaxTx /\ ledger.version <= MaxTx + 2
    /\ Capped(ledger)
    /\ \E s \in {Admin, "m1", "bank"}, r \in {Admin, "m1"}, amt \in 0..MaxAmt :
         LET res == addTransaction(ledger, s, r, amt)
         IN  /\ ledger' = res.state
             /\ outcome' = [kind |-> "addTransaction", pre |-> ledger, err |-> res.err,
                            senderId |-> s, receiverId |-> r, amount |-> amt]
    /\ UNCHANGED <<mergeVars, sysVars, peerVars, pending>>

\* GameService.editTransaction
EditTransaction ==
    /\ ledger.version <= MaxTx + 2
    /\ Capped(ledger)
    /\ \E id \in 1..(Len(ledger.transactions) + 1), amt \in 0..MaxAmt :
         LET res == editTransaction(ledger, id, amt)
         IN  /\ ledger' = res.state
             /\ outcome' = [kind |-> "editTransaction", pre |-> ledger, err |-> res.err,
                            id |-> id, amount |-> amt]
    /\ UNCHANGED <<mergeVars, sysVars, peerVars, pending>>

LedgerNext == AddTransaction \/ EditTransaction

SpecLedger == LedgerInit /\ [][LedgerNext]_vars

\* The balances and unbounded flags of a snapshot.
Balances(s) ==
    [players |-> [p \in DOMAIN s.players |-> s.players[p].balance],
     stashes |-> [x \in DOMAIN s.stashes |->
                    [balance |-> s.stashes[x].balance, isInfinite |-> s.stashes[x].isInfinite]]]

\* The last call was a configuration call that sets a balance or an
\* unbounded flag, or creates a stash.
SetsBalance ==
    \/ outcome.kind = "updatePlayer" /\ "balance" \in DOMAIN outcome.updates
    \/ outcome.kind = "addStash"
    \/ outcome.kind = "updateStash" /\ DOMAIN outcome.updates \cap {"balance", "isInfinite"} # {}

(* C31: setting a player's balance, creating a stash and setting a stash's  *)
(* balance or unbounded flag fail on a snapshot that is active or ended and *)
(* leave it unchanged, with the already-started error when the target       *)
(* exists; and no step from an active or ended snapshot changes a balance   *)
(* or an unbounded flag unless it is a transfer.                            *)
C31_ConfigOnlyWhileForming ==
    /\ []((SetsBalance /\ hasGameStarted(outcome.pre)) =>
            /\ outcome.err # "none"
            /\ ledger = outcome.pre
            /\ outcome.err \in {ErrNoPlayer, ErrNoStash, ErrBalance, ErrStashStarted, ErrStashBalance}
            /\ Exists(outcome.pre, outcome.id) =>
                  outcome.err \in {ErrBalance, ErrStashStarted, ErrStashBalance})
    /\ [][(hasGameStarted(ledger) /\ Balances(ledger') # Balances(ledger))
             => outcome'.kind = "transfer"]_vars

\* A balance update of the stash of an active game was refused.
C31_Witness ==
    /\ outcome.kind = "updateStash" /\ outcome.id = "pot"
    /\ outcome.updates = [balance |-> MaxBal]
    /\ outcome.pre.status = "active"
    /\ outcome.err = ErrStashBalance
    /\ ledger = outcome.pre

\* id names a stash of s whose unbounded flag is set.
Unbounded(s, id) == id \in DOMAIN s.stashes /\ s.stashes[id].isInfinite

(* C32: a transfer leaves every unbounded stash it names as source or       *)
(* destination as it was, whether it succeeds or fails; and a transfer out  *)
(* of an unbounded stash is never refused for insufficient funds, by the    *)
(* engine or by the pre-check: with a positive amount and a known receiver  *)
(* the engine applies it, whatever the stash's stored balance.              *)
C32_UnboundedUntouched ==
    outcome.kind = "transfer" =>
        /\ \A x \in {outcome.tx.senderId, outcome.tx.receiverId} :
              Unbounded(outcome.pre, x) => ledger.stashes[x] = outcome.pre.stashes[x]
        /\ Unbounded(outcome.pre, outcome.tx.senderId) =>
              /\ outcome.err # ErrInsufficient /\ outcome.check # ErrInsufficient
              /\ (outcome.tx.amount > 0 /\ Exists(outcome.pre, outcome.tx.receiverId))
                    => outcome.err = "none"

\* A transfer of more than the unbounded stash holds went from it to a
\* player, and one went from a player into it.
C32_Witness ==
    /\ outcome.kind = "transfer" /\ outcome.err = "none"
    /\ outcome.tx.senderId = "bank" /\ outcome.tx.receiverId = Admin
    /\ outcome.tx.amount = MaxAmt /\ outcome.pre.stashes["bank"].balance < MaxAmt
    /\ Balance(ledger, Admin) = Balance(outcome.pre, Admin) + MaxAmt
    /\ ledger.stashes["bank"] = outcome.pre.stashes["bank"]

(* C33: after any operation of the authority on its transfer list the old   *)
(* list is a prefix of the new one: no record is removed and every earlier  *)
(* record keeps its sender, receiver and amount.                            *)
C33_AppendOnly ==
    [][/\ Len(ledger'.transactions) >= Len(ledger.transactions)
       /\ \A i \in 1..Len(ledger.transactions) :
             /\ ledger'.transactions[i].senderId = ledger.transactions[i].senderId
             /\ ledger'.transactions[i].receiverId = ledger.transactions[i].receiverId
             /\ ledger'.transactions[i].amount = ledger.transactions[i].amount]_vars

(***************************************************************************)
(* SpecProvider: the authority's GameProvider serving transfer requests.   *)
(* The handlers the subscription effect registers read the state of the    *)
(* render they were created in; a dispatched action is reduced at the next *)
(* render, and the effects of that render subscribe new handlers.          *)
(***************************************************************************)
\* gameReducer applied to the dispatched ADD_TRANSACTION actions, in order;
\* a throw of the reducer fails the render and nothing is committed.
RECURSIVE reduce(_, _)
reduce(s, actions) ==
    IF actions = << >> THEN Ok(s)
    ELSE LET r == processTransaction(s, Head(actions))
         IN  IF r.ok THEN reduce(r.state, Tail(actions)) ELSE r

\* The running game the authority resumed, with b on the authority's account.
ProviderGame(b) == [SavedGame EXCEPT !.players[Admin].balance = b]

\* Both members are connected to the authority of a resumed running game.
ProviderInit ==
    /\ \E b \in 0..MaxBal :
         state = [p \in Peers |-> IF p = Admin THEN initGame(Admin, ProviderGame(b)) ELSE Null]
    /\ conn = Members
    /\ net = [m \in Members |-> << >>] /\ req = [m \in Members |-> << >>]
    /\ nextTx = 0 /\ intents = 0 /\ lastEvent = NoOutcome
    /\ ledger = Null /\ outcome = NoOutcome
    /\ local = Null /\ merged = {} /\ lastMerge = NoOutcome
    /\ PeerIdle /\ pending = << >>

\* The provider is mounted: no render has thrown.
Mounted == lastEvent.kind # "renderError"

\* GamePage.handleCreateTransaction on member m: a request that debits the
\* authority's account goes to the authority
MemberRequest(m) ==
    /\ nextTx <= MaxTx /\ Len(req[m]) < MaxQueue
    /\ \E amt \in 1..MaxAmt :
         req' = [req EXCEPT ![m] = Append(@, [id |-> nextTx + 1, senderId |-> Admin,
                                               receiverId |-> m, amount |-> amt,
                                               isDeleted |-> FALSE])]
    /\ nextTx' = nextTx + 1
    /\ lastEvent' = Event(m, "send", state, state, 0)
    /\ UNCHANGED <<intents, state, conn, net, engineVars, mergeVars, peerVars, pending>>

\* GameProvider.handleMessage TRANSACTION_REQUEST: validateTransaction on the
\* state of the last render, then dispatch or the error envelope
ProviderRecv(m) ==
    /\ Mounted /\ req[m] # << >> /\ Len(net[m]) < MaxQueue
    /\ isAdmin(state[Admin], Admin)
    /\ req' = [req EXCEPT ![m] = Tail(@)]
    /\ LET tx == Head(req[m])
           check == validateTransaction(state[Admin], tx)
       IN  IF check = "none"
           THEN pending' = Append(pending, tx) /\ UNCHANGED net
           ELSE net' = [net EXCEPT ![m] = Append(@, ErrorMsg(check))] /\ UNCHANGED pending
    /\ lastEvent' = Event(Admin, "request", state, state, 0)
    /\ UNCHANGED <<intents, state, conn, nextTx, engineVars, mergeVars, peerVars>>

\* The next render: useReducer reduces what was dispatched, the broadcast
\* effect sends the new state and the subscription effect subscribes again.
ProviderRender ==
    /\ Mounted /\ pending # << >> /\ Room(conn, 1)
    /\ pending' = << >>
    /\ LET r == reduce(state[Admin], pending)
       IN  IF r.ok
           THEN /\ state' = [state EXCEPT ![Admin] = r.state]
                /\ net' = broadcast(net, conn, StateSync(r.state))
                /\ lastEvent' = Event(Admin, "render", state, state', 0)
           ELSE /\ lastEvent' = Event(Admin, "renderError", state, state, 0)
                /\ UNCHANGED <<state, net>>
    /\ UNCHANGED <<intents, conn, req, nextTx, engineVars, mergeVars, peerVars>>

ProviderNext ==
    \/ \E m \in Members : MemberRequest(m)
    \/ \E m \in Members : ProviderRecv(m)
    \/ ProviderRender
    \/ \E m \in Members : DeliverStateSync(m)
    \/ \E m \in Members : DeliverError(m)

SpecProvider == ProviderInit /\ [][ProviderNext]_vars

(* C34: a transfer request the authority receives is checked against the   *)
(* snapshot that the requests accepted before it produce: if that snapshot  *)
(* does not allow it, the requester gets an error envelope and nothing is   *)
(* dispatched or changed, otherwise it is dispatched; and every accepted    *)
(* request is applied, in arrival order, by the render that follows.        *)
C34_SerializedByArrival ==
    /\ [][\A m \in Members :
            (lastEvent'.kind = "request" /\ req[m] # << >> /\ req'[m] = Tail(req[m])) =>
               LET tx == Head(req[m])
                   before == reduce(state[Admin], pending)
                   check == validateTransaction(before.state, tx)
               IN  /\ before.ok
                   /\ state' = state
                   /\ IF check = "none"
                      THEN pending' = Append(pending, tx) /\ net' = net
                      ELSE /\ pending' = pending
                           /\ net' = [net EXCEPT ![m] = Append(@, ErrorMsg(check))]]_vars
    /\ [][lastEvent'.kind \in {"render", "renderError"} =>
            /\ reduce(state[Admin], pending).ok
            /\ state'[Admin] = reduce(state[Admin], pending).state]_vars

(* C24 under SpecProvider: whenever the reducer throws on a request that    *)
(* was dispatched, the member that sent it gets an error envelope and the   *)
(* provider goes on serving (it stays mounted).                             *)
C24_EngineErrorAnswered ==
    [][(pending # << >> /\ pending' = << >> /\ ~reduce(state[Admin], pending).ok) =>
          /\ Mounted'
          /\ \E m \in Members :
                Len(net'[m]) = Len(net[m]) + 1 /\ net'[m][Len(net'[m])].type = "error"]_vars

(* C35: once the timer of a connect has rejected its promise the node holds *)
(* no pending entry for that peer; a later connectToPeer to it dials anew   *)
(* instead of returning the rejected promise; and when the timed-out        *)
(* channel opens afterwards it is not entered in connectedPeers and no      *)
(* peer:connect is emitted for it.                                          *)
C35_TimeoutDiscards ==
    /\ [](\A l \in Links :
            link[l].promise = "rejected" => l[2] \notin svc[l[1]].pendingConnections)
    /\ [][\A l \in Links :
            (link[l].promise = "rejected" /\ ~IsConnectedToPeer(l[1], l[2])
                /\ lastCall'.op = "connectToPeer" /\ lastCall'.p = l[1] /\ lastCall'.r = l[2])
               => lastCall'.res = "dial"]_vars
    /\ [][\A l \in Links :
            (link[l].promise = "rejected" /\ link[l].i = "pending" /\ link'[l].i = "open")
               => /\ svc'[l[1]].connectedPeers = svc[l[1]].connectedPeers
                  /\ lastCall'.ev.type # "peer:connect"]_vars

(* C36: a member that holds the provider's initial (empty) state and has no *)
(* session adopts the first state-broadcast it receives: after the delivery *)
(* its snapshot equals the received one.                                    *)
C36_FreshMemberAdopts ==
    [][\A m \in Members :
         (state[m] = Empty /\ lastEvent'.peer = m /\ lastEvent'.kind = "state")
            => state'[m] = Head(net[m]).gameState]_vars

(* C37: a failing operation leaves the snapshot as it was: after an         *)
(* addTransaction or editTransaction that reported an error the ledger is   *)
(* identical to the one the operation was called on, so no failure leaves   *)
(* one endpoint adjusted and the other not.                                 *)
C37_FailureLeavesSnapshot ==
    (outcome.kind \in {"addTransaction", "editTransaction"} /\ outcome.err # "none")
        => ledger = outcome.pre

(* C39: on a running snapshot the pre-check and the engine agree: for every *)
(* transfer, validateTransaction reports it valid exactly when              *)
(* processTransaction applies it without an error.                          *)
C39_ValidatorAgreesWithEngine ==
    (outcome.kind = "transfer" /\ outcome.pre.status = "active")
        => (outcome.check = "none" <=> outcome.err = "none")

(***************************************************************************)
(* SpecEnd: the end of the game at members that hold the authority's       *)
(* snapshot.  GAME_END and the STATE_SYNC of the ended snapshot leave the  *)
(* authority in two separate broadcast calls; the member's handler takes   *)
(* the envelopes in flight in either order.                                *)
(***************************************************************************)
EndInit ==
    /\ \E o \in {NoOptions} \cup { ProviderGame(b) : b \in 0..MaxBal } :
         state = [p \in Peers |-> initGame(Admin, o)]
    /\ conn = Members
    /\ net = [m \in Members |-> << >>] /\ req = [m \in Members |-> << >>]
    /\ nextTx = 0 /\ intents = MaxIntents /\ lastEvent = NoOutcome
    /\ ledger = Null /\ outcome = NoOutcome
    /\ local = Null /\ merged = {} /\ lastMerge = NoOutcome
    /\ PeerIdle /\ pending = << >>

\* GameProvider.handleMessage on a member, for any envelope in flight to it:
\* STATE_SYNC -> SYNC_STATE, GAME_END -> END_GAME.
DeliverAny(m) ==
    \E i \in 1..Len(net[m]) :
       LET msg == net[m][i]
       IN  /\ msg.type \in {"state", "game-end"}
           /\ net' = [net EXCEPT ![m] = SubSeq(@, 1, i - 1) \o SubSeq(@, i + 1, Len(@))]
           /\ state' = [state EXCEPT ![m] = IF msg.type = "state"
                                            THEN syncState(@, msg.gameState)
                                            ELSE endGame(@)]
           /\ lastEvent' = Event(m, msg.type, state, state', 0)
           /\ UNCHANGED <<intents, conn, req, nextTx, engineVars, mergeVars, peerVars, pending>>

EndNext ==
    \/ AdminEndGame
    \/ AdminSetConfiguringState
    \/ \E m \in Members : DeliverAny(m)

SpecEnd == EndInit /\ [][EndNext]_vars

NonNegative(s) ==
    /\ \A p \in DOMAIN s.players : s.players[p].balance >= 0
    /\ \A x \in DOMAIN s.stashes : s.stashes[x].isInfinite \/ s.stashes[x].balance >= 0

(* C40: the game starts with every player and finite-stash balance at 0 or *)
(* more; after every sequence of transfers the authority accepted (and of  *)
(* those it refused) every player and finite-stash balance is still >= 0.  *)
C40_BalancesNonNegative == NonNegative(ledger)

\* The second accepted transfer has taken a sender's balance down to 0.
C40_Witness ==
    /\ outcome.kind = "addTransaction" /\ outcome.err = "none"
    /\ Len(ledger.transactions) >= 2
    /\ outcome.senderId \in DOMAIN ledger.players
    /\ ledger.players[outcome.senderId].balance = 0
    /\ outcome.pre.players[outcome.senderId].balance > 0

====
